---- MODULE Spec2Model ----
(***************************************************************************)
(* Model of the Telegram front-end of the cookie scanner (src/bot.py):     *)
(* the users database with plans, quotas and VIP entitlements, the         *)
(* command and button handlers, and the document handler that scans        *)
(* uploaded .txt / .zip cookie files and repackages the live ones.         *)
(*                                                                         *)
(* Time is counted in whole hours.  An optional value (Python None or a    *)
(* value) is the empty or the one-element sequence.  A Python dict is a    *)
(* function whose DOMAIN is its set of keys.                               *)
(***************************************************************************)
EXTENDS Integers, Sequences, FiniteSets, TLC

VARIABLES users_db, stats_db, user_data, now, reply, scanned, pool, refused

vars == <<users_db, stats_db, user_data, now, reply, scanned, pool, refused>>

-----------------------------------------------------------------------------
(* Bounds of the model *)

\* the clock of the account and VIP specifications runs from 0 to MaxTime
\* hours, that of the quota specification MaxTime hours past the reset period
MaxTime == 1
\* the account and scan specifications stop the uploads once MaxDaily files
\* were scanned in a day
MaxDaily == 2
\* the quota and VIP specifications let a user upload MaxOver times beyond
\* the quota
MaxOver == 1
\* a .zip of the scan specification has up to MaxMembers members
MaxMembers == 2
\* the pool specification reads up to MaxPoolFiles files from a .zip
MaxPoolFiles == 11

-----------------------------------------------------------------------------
(* Program constants *)

ADMIN_USER_ID == "6557052839"
CHANNEL_CHAT_ID == "-1003103353083"
NORMAL_PLAN_LIMIT == 30
NORMAL_PLAN_RESET_HOURS == 3
\* ThreadPoolExecutor(max_workers=10)
max_workers == 10
HoursPerDay == 24

None == <<>>
Some(x) == <<x>>

\* Telegram users that talk to the bot: the admin and another user
Users == {ADMIN_USER_ID, "1001"}
\* chats a message can come from: the channel and a private chat
Chats == {CHANNEL_CHAT_ID, "private"}

\* the keys of SCAN_TARGETS the model follows, in the order of the dict:
\* one tester of each shape (generic target test with a plan, TikTok with
\* its profile, Facebook, LinkedIn with its fall-through)
SCAN_TARGETS_ORDER == <<"netflix", "tiktok", "facebook", "linkedin">>
SCAN_TARGETS == {SCAN_TARGETS_ORDER[i] : i \in DOMAIN SCAN_TARGETS_ORDER}

-----------------------------------------------------------------------------
(* users_db *)

load_users_db == << >>

NewRecord(user_id_str, t) ==
  [ plan       |-> IF user_id_str # ADMIN_USER_ID THEN "normal" ELSE "vip",
    registered |-> (user_id_str = ADMIN_USER_ID),
    join_date  |-> None,
    file_count |-> 0,
    last_reset |-> t,
    vip_expiry |-> None,
    vip_start  |-> IF user_id_str = ADMIN_USER_ID THEN Some(t) ELSE None ]

\* get_user_record: the database after the call (the record is db[user_id])
get_user_record(db, user_id, t) ==
  LET db1 == IF user_id \notin DOMAIN db
             THEN [k \in DOMAIN db \cup {user_id} |->
                     IF k = user_id THEN NewRecord(user_id, t) ELSE db[k]]
             ELSE db
      record == db1[user_id]
  IN IF record.plan = "vip" /\ "vip_start" \notin DOMAIN record
     THEN [db1 EXCEPT ![user_id] =
             [f \in DOMAIN record \cup {"vip_start"} |->
                IF f = "vip_start" THEN Some(t) ELSE record[f]]]
     ELSE db1

\* a variant of is_registered that takes everybody for registered
is_registered_anyone(db, user_id) == TRUE

is_registered(db, user_id) == db[user_id].registered

is_restricted_private(db, user_id, chat_id) ==
  IF user_id = ADMIN_USER_ID THEN FALSE
  ELSE IF db[user_id].plan = "vip" THEN FALSE
  ELSE IF chat_id = CHANNEL_CHAT_ID THEN FALSE
  ELSE TRUE

\* a variant of can_user_scan that looks at the quota before the plan
can_user_scan_quota_first(db, user_id, t) ==
  LET r0 == db[user_id]
      due == t - r0.last_reset > NORMAL_PLAN_RESET_HOURS
      r2 == IF due THEN [r0 EXCEPT !.file_count = 0, !.last_reset = t] ELSE r0
  IN IF r2.file_count >= NORMAL_PLAN_LIMIT
     THEN [ok |-> FALSE, msg |-> "used_all",
           wait |-> (r0.last_reset + NORMAL_PLAN_RESET_HOURS) - t,
           db |-> [db EXCEPT ![user_id] = r2]]
     ELSE [ok |-> TRUE, msg |-> "", wait |-> 0, db |-> [db EXCEPT ![user_id] = r2]]

\* a variant of can_user_scan that empties the counter when the period is
\* over but does not start a new period
can_user_scan_same_period(db, user_id, t) ==
  LET r0 == db[user_id]
      expired == r0.plan = "vip" /\ r0.vip_expiry # None /\ t > r0.vip_expiry[1]
      r1 == IF expired THEN [r0 EXCEPT !.plan = "normal", !.vip_expiry = None] ELSE r0
      last_reset == r1.last_reset
      due == t - last_reset > NORMAL_PLAN_RESET_HOURS
      r2 == IF due THEN [r1 EXCEPT !.file_count = 0] ELSE r1
  IN IF r1.plan = "vip"
     THEN [ok |-> TRUE, msg |-> "", wait |-> 0, db |-> [db EXCEPT ![user_id] = r1]]
     ELSE IF r2.file_count >= NORMAL_PLAN_LIMIT
          THEN [ok |-> FALSE, msg |-> "used_all",
                wait |-> (last_reset + NORMAL_PLAN_RESET_HOURS) - t,
                db |-> [db EXCEPT ![user_id] = r2]]
          ELSE [ok |-> TRUE, msg |-> "", wait |-> 0, db |-> [db EXCEPT ![user_id] = r2]]

\* can_user_scan on a database that already holds the record:
\* [ok, msg, wait (hours announced when refused), db (the database afterwards)]
can_user_scan(db, user_id, t) ==
  LET r0 == db[user_id]
      expired == r0.plan = "vip" /\ r0.vip_expiry # None /\ t > r0.vip_expiry[1]
      r1 == IF expired THEN [r0 EXCEPT !.plan = "normal", !.vip_expiry = None] ELSE r0
      last_reset == r1.last_reset
      due == t - last_reset > NORMAL_PLAN_RESET_HOURS
      r2 == IF due THEN [r1 EXCEPT !.file_count = 0, !.last_reset = t] ELSE r1
  IN IF r1.plan = "vip"
     THEN [ok |-> TRUE, msg |-> "", wait |-> 0, db |-> [db EXCEPT ![user_id] = r1]]
     ELSE IF r2.file_count >= NORMAL_PLAN_LIMIT
          THEN [ok |-> FALSE, msg |-> "used_all",
                wait |-> (last_reset + NORMAL_PLAN_RESET_HOURS) - t,
                db |-> [db EXCEPT ![user_id] = r2]]
          ELSE [ok |-> TRUE, msg |-> "", wait |-> 0, db |-> [db EXCEPT ![user_id] = r2]]

increment_file_count(db, user_id) ==
  [db EXCEPT ![user_id].file_count = @ + 1]

\* set_vip_with_duration: [ok, db]
\* a variant of set_vip_with_duration that leaves file_count as it is
set_vip_keeping_count(db, user_id, days, t) ==
  IF user_id \notin DOMAIN db
  THEN [ok |-> FALSE, db |-> db]
  ELSE [ok |-> TRUE,
        db |-> [db EXCEPT ![user_id] =
                  [f \in DOMAIN @ \cup {"vip_start"} |->
                     CASE f = "plan" -> "vip"
                       [] f = "vip_expiry" -> Some(t + days * HoursPerDay)
                       [] f = "vip_start" -> Some(t)
                       [] OTHER -> @[f]]]]

set_vip_with_duration(db, user_id, days, t) ==
  IF user_id \notin DOMAIN db
  THEN [ok |-> FALSE, db |-> db]
  ELSE [ok |-> TRUE,
        db |-> [db EXCEPT ![user_id] =
                  [f \in DOMAIN @ \cup {"vip_start"} |->
                     CASE f = "plan" -> "vip"
                       [] f = "vip_expiry" -> Some(t + days * HoursPerDay)
                       [] f = "vip_start" -> Some(t)
                       [] f = "file_count" -> 0
                       [] OTHER -> @[f]]]]

-----------------------------------------------------------------------------
(* stats_db *)

Today(t) == t \div HoursPerDay

daily_get(daily, day) == IF day \in DOMAIN daily THEN daily[day] ELSE 0

increment_daily_scans(daily, count, t) ==
  IF count <= 0 THEN daily
  ELSE [d \in DOMAIN daily \cup {Today(t)} |->
          IF d = Today(t) THEN daily_get(daily, d) + count ELSE daily[d]]

-----------------------------------------------------------------------------
(* Cookie files and the service testers *)

\* A cookie file is a sequence of lines.  A line is blank, a comment, has
\* fewer than 7 tab-separated fields ("short"), more than 7 ("long"), or is
\* a cookie of a domain.  A domain is written prefix + base + ".com".
Line(kind, prefix, base) == [kind |-> kind, prefix |-> prefix, base |-> base]

\* parse_cookies_txt: [raised, cookies]; unpacking a line of more than 7
\* fields into 7 names raises ValueError
RECURSIVE parse_lines(_, _)
parse_lines(lines, cookies) ==
  IF lines = << >> THEN [raised |-> FALSE, cookies |-> cookies]
  ELSE LET line == Head(lines)
       IN IF line.kind \in {"blank", "comment"} THEN parse_lines(Tail(lines), cookies)
          ELSE IF line.kind = "short" THEN parse_lines(Tail(lines), cookies)
          ELSE IF line.kind = "long" THEN [raised |-> TRUE, cookies |-> cookies]
          ELSE parse_lines(Tail(lines),
                 Append(cookies, [prefix |-> line.prefix, base |-> line.base]))

parse_cookies_txt(content) == parse_lines(content, << >>)

\* cookie['domain'] == target or cookie['domain'].endsset_key(target), for
\* the targets ".<service>.com" and "<service>.com"
domain_matches(cookie, service_key) == cookie.base = service_key

filter_cookies_by_domain(cookies, service_key) ==
  SelectSeq(cookies, LAMBDA c : domain_matches(c, service_key))

\* What the network answers to a tester: the request fails (an exception),
\* or it ends with a status code at a URL, with a page.  Of the page the
\* model keeps what the extractors find in it, as a sequence of words: the
\* name of the plan (Netflix), or the user name, followed by the follower,
\* following, like and video counts when the profile page could be
\* fetched (TikTok); << >> when they find nothing.
Responses == [failed : {TRUE}, code : {0}, url : {""}, page : {<< >>}]
               \cup [failed : {FALSE}, code : {200, 302, 500},
                     url : {"target", "login", "other"}, page : {<< >>}]

\* a text is a sequence of words; " - " is a word of its own
extract_netflix_plan(page) ==
  IF page # << >> THEN <<"Plan:">> \o page ELSE <<"Plan:", "Unknown">>

\* the first index of word in text, 0 when there is none (str.find)
find(text, word) ==
  IF \E i \in DOMAIN text : text[i] = word
  THEN CHOOSE i \in DOMAIN text :
         text[i] = word /\ \A j \in 1..(i - 1) : text[j] # word
  ELSE 0

\* extract_public_plan_info: None, or the text from "Plan:" up to the first
\* " - " (no text of the model has more than 120 characters)
extract_public_plan_info(plan_info) ==
  IF plan_info = << >> THEN None
  ELSE IF find(plan_info, "Plan:") = 0 THEN None
  ELSE LET text == SubSeq(plan_info, find(plan_info, "Plan:"), Len(plan_info))
       IN IF find(text, " - ") # 0
          THEN Some(SubSeq(text, 1, find(text, " - ") - 1))
          ELSE Some(text)

Redirects == {301, 302, 303, 307, 308}

\* test_netflix_login, through test_cookies_with_target
test_netflix_login(cookies, resp) ==
  IF cookies = << >> THEN Some([status |-> "no_cookies"])
  ELSE IF resp.failed THEN Some([status |-> "error"])
  ELSE IF resp.url = "login" THEN Some([status |-> "dead"])
  ELSE IF resp.code = 200
       THEN IF resp.url = "target"
            THEN Some([status |-> "success", plan_info |-> extract_netflix_plan(resp.page)])
            ELSE Some([status |-> "unknown"])
       ELSE Some([status |-> "dead"])

\* test_tiktok_login, through test_cookies_with_target and test_tiktok_profile
test_tiktok_login(cookies, resp) ==
  IF cookies = << >> THEN Some([status |-> "no_cookies"])
  ELSE IF resp.failed THEN Some([status |-> "error"])
  ELSE IF resp.url = "login" THEN Some([status |-> "dead"])
  ELSE IF resp.code = 200
       THEN IF resp.url = "target"
            THEN Some([status |-> "success",
                       plan_info |->
                         IF resp.page = << >> THEN <<"Status:", "LIVE">>
                         ELSE IF Len(resp.page) = 5
                         THEN <<"User:", resp.page[1], "|", "Followers:", resp.page[2],
                                "|", "Following:", resp.page[3], "|", "Likes:", resp.page[4],
                                "|", "Videos:", resp.page[5]>>
                         ELSE <<"User:", resp.page[1], "|", "Profile:", "Cannot access">>])
            ELSE Some([status |-> "dead", plan_info |-> <<"Status:", "DEAD">>])
       ELSE Some([status |-> "dead"])

test_facebook_login(cookies, resp) ==
  IF resp.failed THEN Some([status |-> "error"])
  ELSE IF resp.code = 200
       THEN IF resp.url = "target" THEN Some([status |-> "success"])
            ELSE Some([status |-> "dead"])
       ELSE Some([status |-> "dead"])

\* test_linkedin_login: a redirect that does not lead to the login page
\* falls off the end of the function, which returns None
test_linkedin_login(cookies, resp) ==
  IF resp.failed THEN Some([status |-> "error"])
  ELSE IF resp.code \in Redirects
       THEN IF resp.url = "login" THEN Some([status |-> "dead"]) ELSE None
       ELSE IF resp.code = 200 THEN Some([status |-> "success"])
       ELSE Some([status |-> "unknown"])

SERVICE_TEST_FUNCTIONS(service_key, cookies, resp) ==
  CASE service_key = "netflix"  -> test_netflix_login(cookies, resp)
    [] service_key = "tiktok"   -> test_tiktok_login(cookies, resp)
    [] service_key = "facebook" -> test_facebook_login(cookies, resp)
    [] service_key = "linkedin" -> test_linkedin_login(cookies, resp)

\* result[key] = value
set_key(result, key, value) ==
  [k \in DOMAIN result \cup {key} |-> IF k = key THEN value ELSE result[k]]

\* a variant of finish_result that reports a tester that returned no
\* dictionary as an error
finish_result_none_is_error(returned, filtered_cookies, original_content) ==
  LET result == IF returned = None THEN [status |-> "error"] ELSE returned[1]
      counted == set_key(result, "cookie_count", Len(filtered_cookies))
  IN IF original_content # << >> /\ result.status = "success"
     THEN set_key(counted, "original_content", original_content)
     ELSE counted

\* the part of scan_cookie_content after the tester returned: the
\* isinstance check and the keys added to the result
finish_result(returned, filtered_cookies, original_content) ==
  LET result == IF returned = None THEN [status |-> "unknown"] ELSE returned[1]
      counted == set_key(result, "cookie_count", Len(filtered_cookies))
  IN IF original_content # << >> /\ result.status = "success"
     THEN set_key(counted, "original_content", original_content)
     ELSE counted

\* scan_cookie_content(content, service_name, original_content = content);
\* net[s] is what the network answers to the tester of service s
scan_cookie_content(content, service_name, net) ==
  LET parsed == parse_cookies_txt(content)
      cookies == parsed.cookies
      found == {s \in SCAN_TARGETS : filter_cookies_by_domain(cookies, s) # << >>}
      one(s) == finish_result(
                  SERVICE_TEST_FUNCTIONS(s, filter_cookies_by_domain(cookies, s), net[s]),
                  filter_cookies_by_domain(cookies, s), content)
      named(s) == [k \in DOMAIN one(s) \cup {"service_name"} |->
                     IF k = "service_name" THEN s ELSE one(s)[k]]
  IN IF parsed.raised THEN [error |-> "exception"]
     ELSE IF cookies = << >> THEN [error |-> "no_valid_cookies"]
     ELSE IF service_name = "all"
          THEN [all_results |-> [s \in found |-> named(s)]]
     ELSE IF service_name \notin SCAN_TARGETS THEN [error |-> "not_supported"]
     ELSE IF service_name \notin found THEN [error |-> "no_suitable_cookies"]
     ELSE one(service_name)

process_single_file(file_name, content, selected_service, net) ==
  <<file_name, scan_cookie_content(content, selected_service, net)>>

-----------------------------------------------------------------------------
(* What the bot sent last: the text (by kind), whom it answered, and for a *)
(* document the outcome of the scan.                                       *)

\* of a scan: the document's extension, the service scanned for, the
\* number of .txt names, the files read and their (file_name, result) in
\* the order the results were consumed, processed_files, the summary and
\* the archive sent (None when none was), and for each file the plan text
\* shown with each service in the message about it
NoScan == [ ext |-> "", service |-> "", names |-> 0, files |-> << >>,
            results |-> << >>, processed |-> 0, summary |-> None, archive |-> None,
            shown |-> << >> ]

\* info: the figures of a plan information message (None in other replies)
Reply(to, kind) == [ to |-> to, chat |-> "", kind |-> kind, wait |-> 0, scan |-> NoScan,
                     info |-> None ]

\* scanned[u] observes the handlers: the number of uploads of u, made on
\* the normal plan, that reached process_single_file since file_count of u
\* was last set to 0
track_reset(db, after) ==
  [u \in Users |-> IF u \in DOMAIN db /\ after[u].last_reset # db[u].last_reset
                   THEN 0 ELSE scanned[u]]

track_scan(count, user, plan, results) ==
  IF plan = "normal" /\ results # << >>
  THEN [count EXCEPT ![user] = @ + 1] ELSE count

-----------------------------------------------------------------------------
(* Commands *)

\* int(context.args[1]): the day counts a caller may type; any other token
\* raises ValueError
IntTokens == [ tok \in {"-1", "0", "1"} |->
                 CASE tok = "-1" -> -1 [] tok = "0" -> 0 [] tok = "1" -> 1 ]

\* what a caller may type after /setvip or /delvip: nothing, a user id
\* (of a user, or of nobody), a user id and a day count or another word
ArgLists == {<< >>} \cup {<<a>> : a \in Users \cup {"999"}}
              \cup {<<a, b>> : a \in Users \cup {"999"}, b \in {"0", "soon"}}

start(user) ==
  /\ reply' = Reply(user, "start_login")
  /\ UNCHANGED <<users_db, stats_db, user_data, now, scanned>>

menu(user) ==
  LET db == get_user_record(users_db, user, now)
  IN /\ users_db' = db
     /\ reply' = IF ~is_registered(db, user) THEN Reply(user, "start_login")
                 ELSE Reply(user, "menu")
     /\ UNCHANGED <<stats_db, user_data, now, scanned>>

\* the figures of "Your Plan Information": plan_text, used_files, max_files,
\* vip_info (None, "expired" or days and hours left) and reset_info (None
\* or the hours left of "Reset in: H hours M minutes"; the clock counts
\* whole hours, so M is 0)
plan_message(record, t) ==
  [ plan_text |-> IF record.plan = "vip" THEN "VIP" ELSE "Normal",
    used_files |-> record.file_count,
    max_files |-> IF record.plan = "vip" THEN Some("Unlimited")
                  ELSE Some(NORMAL_PLAN_LIMIT),
    vip_info |-> IF record.plan = "vip" /\ record.vip_expiry # None
                 THEN LET remaining == record.vip_expiry[1] - t
                      IN IF remaining > 0
                         THEN Some(<<remaining \div HoursPerDay, remaining % HoursPerDay>>)
                         ELSE Some("expired")
                 ELSE None,
    reset_info |-> IF record.plan = "normal"
                   THEN LET next_reset == record.last_reset + NORMAL_PLAN_RESET_HOURS
                            remaining == next_reset - t
                        IN Some(remaining)
                   ELSE None ]

check_plan(user) ==
  LET db == get_user_record(users_db, user, now)
  IN /\ users_db' = db
     /\ reply' = IF ~is_registered(db, user) THEN Reply(user, "start_login")
                 ELSE [Reply(user, "plan_info") EXCEPT
                         !.info = Some(plan_message(db[user], now))]
     /\ UNCHANGED <<stats_db, user_data, now, scanned>>

admin_stats(user) ==
  /\ reply' = IF user # ADMIN_USER_ID THEN Reply(user, "no_permission")
              ELSE Reply(user, "stats")
  /\ UNCHANGED <<users_db, stats_db, user_data, now, scanned>>

\* a variant of admin_set_vip without the check of the caller
admin_set_vip_anyone(user, args) ==
  /\ UNCHANGED <<stats_db, user_data, now>>
  /\ IF Len(args) < 2
     THEN reply' = Reply(user, "setvip_usage") /\ UNCHANGED <<users_db, scanned>>
     ELSE IF args[2] \notin DOMAIN IntTokens
     THEN reply' = Reply(user, "setvip_bad_days") /\ UNCHANGED <<users_db, scanned>>
     ELSE IF args[1] \notin DOMAIN users_db
     THEN reply' = Reply(user, "no_user") /\ UNCHANGED <<users_db, scanned>>
     ELSE LET done == set_vip_with_duration(users_db, args[1], IntTokens[args[2]], now)
          IN /\ users_db' = done.db
             /\ scanned' = [scanned EXCEPT ![args[1]] = 0]
             /\ reply' = Reply(user, "setvip_ok")

admin_set_vip(user, args) ==
  /\ UNCHANGED <<stats_db, user_data, now>>
  /\ IF user # ADMIN_USER_ID
     THEN reply' = Reply(user, "no_permission") /\ UNCHANGED <<users_db, scanned>>
     ELSE IF Len(args) < 2
     THEN reply' = Reply(user, "setvip_usage") /\ UNCHANGED <<users_db, scanned>>
     ELSE IF args[2] \notin DOMAIN IntTokens
     THEN reply' = Reply(user, "setvip_bad_days") /\ UNCHANGED <<users_db, scanned>>
     ELSE IF args[1] \notin DOMAIN users_db
     THEN reply' = Reply(user, "no_user") /\ UNCHANGED <<users_db, scanned>>
     ELSE LET done == set_vip_with_duration(users_db, args[1], IntTokens[args[2]], now)
          IN /\ users_db' = done.db
             /\ scanned' = [scanned EXCEPT ![args[1]] = 0]
             /\ reply' = IF done.ok
                         THEN [Reply(user, "setvip_ok") EXCEPT !.info =
                                 Some([ target |-> args[1], days |-> IntTokens[args[2]],
                                        expires |-> now + IntTokens[args[2]] * HoursPerDay ])]
                         ELSE Reply(user, "setvip_error")

\* a variant of admin_del_vip without the test for the admin as target
admin_del_vip_of_admin(user, args) ==
  /\ UNCHANGED <<stats_db, user_data, now, scanned>>
  /\ IF user # ADMIN_USER_ID
     THEN reply' = Reply(user, "no_permission") /\ UNCHANGED users_db
     ELSE IF Len(args) < 1
     THEN reply' = Reply(user, "delvip_usage") /\ UNCHANGED users_db
     ELSE IF args[1] \notin DOMAIN users_db
     THEN reply' = Reply(user, "no_user") /\ UNCHANGED users_db
     ELSE /\ users_db' = [users_db EXCEPT ![args[1]].plan = "normal",
                                          ![args[1]].vip_expiry = None]
          /\ reply' = Reply(user, "delvip_ok")

admin_del_vip(user, args) ==
  /\ UNCHANGED <<stats_db, user_data, now, scanned>>
  /\ IF user # ADMIN_USER_ID
     THEN reply' = Reply(user, "no_permission") /\ UNCHANGED users_db
     ELSE IF Len(args) < 1
     THEN reply' = Reply(user, "delvip_usage") /\ UNCHANGED users_db
     ELSE IF args[1] \notin DOMAIN users_db
     THEN reply' = Reply(user, "no_user") /\ UNCHANGED users_db
     ELSE IF args[1] = ADMIN_USER_ID
     THEN reply' = Reply(user, "delvip_admin") /\ UNCHANGED users_db
     ELSE /\ users_db' = [users_db EXCEPT ![args[1]].plan = "normal",
                                          ![args[1]].vip_expiry = None]
          /\ reply' = Reply(user, "delvip_ok")

-----------------------------------------------------------------------------
(* Buttons *)

\* callback data of the service buttons and the service each selects
ServiceButtons == [ data \in {"service_netflix", "service_tiktok", "service_facebook",
                              "service_linkedin"} |->
                      CASE data = "service_netflix" -> "netflix"
                        [] data = "service_tiktok" -> "tiktok"
                        [] data = "service_facebook" -> "facebook"
                        [] data = "service_linkedin" -> "linkedin" ]

OpenButtons == {"back_start", "login_menu", "help_menu", "create_account"}

\* buttons of the registered menus that only show a text
TextButtons == [ data \in {"buy_vip", "copy_trc20", "copy_bep20", "main_menu",
                           "services_list", "check_plan", "stats_info"} |->
                   CASE data = "buy_vip" -> "buy_vip"
                     [] data = "copy_trc20" -> "wallet"
                     [] data = "copy_bep20" -> "wallet"
                     [] data = "main_menu" -> "menu"
                     [] data = "services_list" -> "services_list"
                     [] data = "check_plan" -> "plan_info"
                     [] data = "stats_info" -> "stats_info" ]

AdminButtons == [ data \in {"admin_panel", "admin_users_info", "admin_today_stats"} |->
                    CASE data = "admin_panel" -> "admin_panel"
                      [] data = "admin_users_info" -> "users_info"
                      [] data = "admin_today_stats" -> "today_stats" ]

ButtonData == OpenButtons \cup DOMAIN ServiceButtons \cup DOMAIN TextButtons
                \cup DOMAIN AdminButtons \cup {"scan_all"}

\* create_account: [db, kind]
create_account(db0, user, t) ==
  LET db == get_user_record(db0, user, t)
      data == db[user]
      db1 == IF ~data.registered
             THEN [db EXCEPT ![user] =
                     [@ EXCEPT !.registered = TRUE,
                               !.join_date = Some(t),
                               !.plan = IF user # ADMIN_USER_ID /\ @ # "vip"
                                        THEN "normal" ELSE @]]
             ELSE db
  IN [db |-> db1, kind |-> "account_created"]

\* the service_<name> and scan_all branches of button_handler, for a
\* registered caller: [db, user_data, reply]
select_service(db, user, chat_id, service_name, t) ==
  IF is_restricted_private(db, user, chat_id)
  THEN [db |-> db, user_data |-> user_data, reply |-> Reply(user, "private_block")]
  ELSE LET ud == [user_data EXCEPT ![user] =
                    [k \in DOMAIN @ \cup {"selected_service"} |->
                       IF k = "selected_service" THEN service_name ELSE @[k]]]
           can == can_user_scan(db, user, t)
       IN [db |-> can.db, user_data |-> ud,
           reply |-> IF ~can.ok
                     THEN [Reply(user, "quota_error") EXCEPT !.wait = can.wait]
                     ELSE Reply(user, "selected")]

button_handler(user, chat_id, data) ==
  /\ UNCHANGED <<stats_db, now>>
  /\ IF data = "back_start"
     THEN reply' = Reply(user, "start_login") /\ UNCHANGED <<users_db, user_data, scanned>>
     ELSE IF data = "login_menu"
     THEN reply' = Reply(user, "login_menu") /\ UNCHANGED <<users_db, user_data, scanned>>
     ELSE IF data = "help_menu"
     THEN reply' = Reply(user, "help") /\ UNCHANGED <<users_db, user_data, scanned>>
     ELSE IF data = "create_account"
     THEN LET made == create_account(users_db, user, now)
          IN /\ users_db' = made.db
             /\ reply' = Reply(user, made.kind)
             /\ UNCHANGED <<user_data, scanned>>
     ELSE LET db == get_user_record(users_db, user, now)
          IN IF ~is_registered(db, user)
             THEN /\ users_db' = db
                  /\ reply' = Reply(user, "please_login")
                  /\ UNCHANGED <<user_data, scanned>>
             ELSE IF data \in DOMAIN ServiceButtons \/ data = "scan_all"
             THEN LET sel == select_service(db, user, chat_id,
                               IF data = "scan_all" THEN "all" ELSE ServiceButtons[data], now)
                  IN /\ users_db' = sel.db
                     /\ user_data' = sel.user_data
                     /\ reply' = sel.reply
                     /\ scanned' = track_reset(db, sel.db)
             ELSE IF data \in DOMAIN TextButtons
             THEN /\ users_db' = db
                  /\ reply' = IF data = "check_plan"
                              THEN [Reply(user, "plan_info") EXCEPT
                                      !.info = Some(plan_message(db[user], now))]
                              ELSE Reply(user, TextButtons[data])
                  /\ UNCHANGED <<user_data, scanned>>
             ELSE IF data \in DOMAIN AdminButtons
             THEN /\ users_db' = db
                  /\ reply' = IF user # ADMIN_USER_ID
                              THEN Reply(user, IF data = "admin_panel"
                                               THEN "panel_no_permission"
                                               ELSE "button_no_permission")
                              ELSE Reply(user, AdminButtons[data])
                  /\ UNCHANGED <<user_data, scanned>>
             ELSE /\ users_db' = db
                  /\ UNCHANGED <<user_data, reply, scanned>>

-----------------------------------------------------------------------------
(* Documents *)

\* An uploaded document: its extension, whether zipfile can open it, and
\* its members (for a .txt document, the one member is the file itself).
\* A member has a folder and a base name, ends with .txt or not, can be
\* read or not, and holds a content; net is what the network will answer
\* when that content is tested.
Member(dir, name, txt, readable, content, net) ==
  [dir |-> dir, name |-> name, txt |-> txt, readable |-> readable,
   content |-> content, net |-> net]

Document(ext, valid, members) == [ext |-> ext, valid |-> valid, members |-> members]

\* names = [n for n in zf.namelist() if n.lower().endsset_key('.txt')]
zip_names(doc) == SelectSeq(doc.members, LAMBDA m : m.txt)

\* files_to_process: (Path(n).name, content) of every name that could be read
files_to_process(doc) == SelectSeq(zip_names(doc), LAMBDA m : m.readable)

\* the orders in which the futures of n submitted files can complete
Orders(n) == {o \in [1..n -> 1..n] : \A i, j \in 1..n : i # j => o[i] # o[j]}

\* all_results['error_messages'].append(f"{file_name}: {result['error']}")
add_error(all_results, file_name, error) ==
  [k \in DOMAIN all_results \cup {"error_messages"} |->
     IF k = "error_messages"
     THEN (IF k \in DOMAIN all_results THEN all_results[k] ELSE << >>)
            \o << <<file_name, error>> >>
     ELSE all_results[k]]

\* all_results[file_name] = result
put_result(all_results, file_name, result) ==
  [k \in DOMAIN all_results \cup {file_name} |->
     IF k = file_name THEN result ELSE all_results[k]]

\* live_cookies[svc].append((file_name, r)); the dict keeps the order in
\* which its keys were first set
RECURSIVE live_append(_, _, _)
live_append(live_cookies, svc, item) ==
  IF live_cookies = << >> THEN << [svc |-> svc, items |-> <<item>>] >>
  ELSE IF Head(live_cookies).svc = svc
       THEN << [Head(live_cookies) EXCEPT !.items = Append(@, item)] >> \o Tail(live_cookies)
       ELSE << Head(live_cookies) >> \o live_append(Tail(live_cookies), svc, item)

\* the loop over result['all_results'].items() that collects the live ones
RECURSIVE live_of_all(_, _, _, _)
live_of_all(live_cookies, file_name, per_service, keys) ==
  IF keys = << >> THEN live_cookies
  ELSE LET svc == Head(keys)
           next == IF svc \in DOMAIN per_service /\ per_service[svc].status = "success"
                   THEN live_append(live_cookies, svc, <<file_name, per_service[svc]>>)
                   ELSE live_cookies
       IN live_of_all(next, file_name, per_service, Tail(keys))

\* the loop over as_completed(futures): done is the sequence of
\* (file_name, result) in completion order
RECURSIVE collect(_, _, _)
collect(done, selected_service, acc) ==
  IF done = << >> THEN acc
  ELSE LET file_name == Head(done)[1]
           result == Head(done)[2]
           next ==
             IF "error" \in DOMAIN result
             THEN [acc EXCEPT !.processed_files = @ + 1,
                              !.all_results = add_error(@, file_name, result.error)]
             ELSE IF selected_service = "all"
             THEN [acc EXCEPT !.processed_files = @ + 1,
                              !.all_results = put_result(@, file_name, result),
                              !.live_cookies = live_of_all(@, file_name, result.all_results,
                                                           SCAN_TARGETS_ORDER)]
             ELSE [acc EXCEPT !.processed_files = @ + 1,
                              !.all_results = put_result(@, file_name, result),
                              !.live_cookies = IF result.status = "success"
                                               THEN live_append(@, selected_service,
                                                                <<file_name, result>>)
                                               ELSE @]
       IN collect(Tail(done), selected_service, next)

\* the counter a status adds to
stat_of(status) ==
  CASE status = "success" -> "live"
    [] status = "dead" -> "dead"
    [] status = "no_cookies" -> "no_cookies"
    [] status = "error" -> "error"
    [] OTHER -> "unknown"

StatKeys == {"live", "dead", "unknown", "no_cookies", "error"}

\* the summary of a .zip scanned for one service.  The loop reads every
\* value of all_results as a result dict; the list under 'error_messages'
\* has no .get and the loop raises AttributeError on it.
summary_single(all_results, selected_service, n) ==
  IF "error_messages" \in DOMAIN all_results
  THEN [raised |-> TRUE, summary |-> None]
  ELSE [raised |-> FALSE,
        summary |-> Some(
          [n |-> n,
           stats |-> [svc \in {selected_service} |->
                        [c \in StatKeys |->
                           Cardinality({f \in DOMAIN all_results :
                                          stat_of(all_results[f].status) = c})]],
           lines |-> {selected_service},
           errors |-> << >>])]

\* the summary of a .zip scanned for all services
summary_all(all_results, n) ==
  LET files == {f \in DOMAIN all_results : f # "error_messages"}
      seen == {svc \in SCAN_TARGETS :
                 \E f \in files : svc \in DOMAIN all_results[f].all_results}
      stats == [svc \in seen |->
                  [c \in StatKeys |->
                     Cardinality({f \in files :
                        /\ svc \in DOMAIN all_results[f].all_results
                        /\ stat_of(all_results[f].all_results[svc].status) = c})]]
  IN [raised |-> FALSE,
      summary |-> Some(
        [n |-> n,
         stats |-> stats,
         lines |-> {svc \in seen : stats[svc].live > 0 \/ stats[svc].dead > 0},
         errors |-> IF "error_messages" \in DOMAIN all_results
                    THEN all_results["error_messages"] ELSE << >>])]

\* send_live_cookies_archive: the entries written, (service folder, file
\* name, content), in the order written
RECURSIVE archive_items(_, _)
archive_items(svc, items) ==
  IF items = << >> THEN << >>
  ELSE LET file_name == Head(items)[1]
           result == Head(items)[2]
           content == IF "original_content" \in DOMAIN result
                      THEN result.original_content ELSE << >>
       IN (IF content # << >> THEN << <<svc, file_name, content>> >> ELSE << >>)
            \o archive_items(svc, Tail(items))

RECURSIVE archive_all(_)
archive_all(live_cookies) ==
  IF live_cookies = << >> THEN << >>
  ELSE archive_items(Head(live_cookies).svc, Head(live_cookies).items)
         \o archive_all(Tail(live_cookies))

send_live_cookies_archive(live_cookies, selected_service) ==
  IF selected_service = "all" THEN archive_all(live_cookies)
  ELSE archive_all(SelectSeq(live_cookies, LAMBDA e : e.svc = selected_service))

\* extract_public_plan_info(r.get('plan_info', '')) or ""
plan_text(r) ==
  LET plan == extract_public_plan_info(IF "plan_info" \in DOMAIN r THEN r.plan_info ELSE << >>)
  IN IF plan = None THEN << >> ELSE plan[1]

\* the plan text in the message about a .txt file, with each service
plan_lines(result, selected_service) ==
  IF "error" \in DOMAIN result THEN << >>
  ELSE IF selected_service = "all"
       THEN [svc \in DOMAIN result.all_results |-> plan_text(result.all_results[svc])]
       ELSE [svc \in {selected_service} |-> plan_text(result)]

\* the try block of handle_document: what was sent, and whether control
\* reached the end of the block (where the usage is counted)
scan_document(doc, order, selected_service) ==
  LET base == [NoScan EXCEPT !.ext = doc.ext, !.service = selected_service]
  IN IF doc.ext = "zip"
     THEN IF ~doc.valid
          THEN [kind |-> "exception", counted |-> FALSE, scan |-> base]
          ELSE IF zip_names(doc) = << >>
          THEN [kind |-> "no_txt", counted |-> FALSE, scan |-> base]
          ELSE LET files == files_to_process(doc)
                   done == [i \in 1..Len(files) |->
                              process_single_file(files[order[i]].name, files[order[i]].content,
                                                  selected_service, files[order[i]].net)]
                   acc == collect(done, selected_service,
                                  [processed_files |-> 0, all_results |-> << >>,
                                   live_cookies |-> << >>])
                   sum == IF selected_service = "all"
                          THEN summary_all(acc.all_results, Len(zip_names(doc)))
                          ELSE summary_single(acc.all_results, selected_service,
                                              Len(zip_names(doc)))
                   seen == [base EXCEPT !.names = Len(zip_names(doc)),
                                        !.files = [i \in 1..Len(files) |-> files[order[i]]],
                                        !.results = done,
                                        !.processed = acc.processed_files,
                                        !.shown = [i \in 1..Len(files) |-> << >>]]
               IN IF sum.raised
                  THEN [kind |-> "exception", counted |-> FALSE, scan |-> seen]
                  ELSE [kind |-> "summary", counted |-> TRUE,
                        scan |-> [seen EXCEPT
                                    !.summary = sum.summary,
                                    !.archive = IF acc.live_cookies # << >>
                                                THEN Some(send_live_cookies_archive(
                                                            acc.live_cookies, selected_service))
                                                ELSE None]]
     ELSE IF doc.ext = "txt"
     THEN LET file == doc.members[1]
              done == process_single_file(file.name, file.content, selected_service, file.net)
              result == done[2]
              seen == [base EXCEPT !.files = <<file>>, !.results = <<done>>, !.processed = 1,
                                   !.shown = << plan_lines(result, selected_service) >>]
              live == IF "error" \in DOMAIN result THEN << >>
                      ELSE IF selected_service = "all"
                      THEN live_of_all(<< >>, file.name, result.all_results, SCAN_TARGETS_ORDER)
                      ELSE IF result.status = "success"
                      THEN << [svc |-> selected_service, items |-> << done >>] >>
                      ELSE << >>
          IN [kind |-> IF "error" \in DOMAIN result THEN "txt_error"
                       ELSE IF selected_service = "all" THEN "txt_all" ELSE "txt_single",
              counted |-> TRUE,
              scan |-> [seen EXCEPT
                          !.archive = IF live # << >>
                                      THEN Some(send_live_cookies_archive(live, selected_service))
                                      ELSE None]]
     ELSE [kind |-> "bad_ext", counted |-> FALSE, scan |-> base]

\* handle_document for a message that carries a document (the handler is
\* registered with filters.Document.ALL) in a chat
handle_document(user, chat_id, doc, order) ==
  LET db == get_user_record(users_db, user, now)
  IN /\ UNCHANGED <<user_data, now>>
     /\ IF ~is_registered(db, user)
        THEN /\ users_db' = db
             /\ reply' = Reply(user, "start_login")
             /\ UNCHANGED <<stats_db, scanned>>
        ELSE IF is_restricted_private(db, user, chat_id)
        THEN /\ users_db' = db
             /\ reply' = Reply(user, "private_block")
             /\ UNCHANGED <<stats_db, scanned>>
        ELSE IF "selected_service" \notin DOMAIN user_data[user]
        THEN /\ users_db' = db
             /\ reply' = Reply(user, "choose_service")
             /\ UNCHANGED <<stats_db, scanned>>
        ELSE LET can == can_user_scan(db, user, now)
             IN IF ~can.ok
                THEN /\ users_db' = can.db
                     /\ reply' = [Reply(user, "quota_error") EXCEPT !.wait = can.wait]
                     /\ scanned' = track_reset(db, can.db)
                     /\ UNCHANGED stats_db
                ELSE LET out == scan_document(doc, order, user_data[user].selected_service)
                         count == out.counted /\ out.scan.processed > 0
                     IN /\ users_db' = IF count THEN increment_file_count(can.db, user)
                                       ELSE can.db
                        /\ stats_db' = IF count
                                       THEN increment_daily_scans(stats_db, out.scan.processed, now)
                                       ELSE stats_db
                        /\ reply' = [Reply(user, out.kind) EXCEPT !.scan = out.scan,
                                                                  !.chat = chat_id]
                        /\ scanned' = track_scan(track_reset(db, can.db), user,
                                                 can.db[user].plan, out.scan.results)

-----------------------------------------------------------------------------
(* The clock *)

Tick(limit) ==
  /\ now < limit
  /\ now' = now + 1
  /\ UNCHANGED <<users_db, stats_db, user_data, reply, scanned>>

-----------------------------------------------------------------------------
(* The worker pool of handle_document, step by step: the thread of the     *)
(* handler submits the files and consumes the results, the workers of the  *)
(* executor run process_single_file.                                        *)

\* phase: where the handler is ("none": no .zip is being processed);
\* n: the number of files read from the .zip; of each file, the state of
\* its call of process_single_file ("new", "queued", "running", "done"),
\* how often it was submitted and how often its result was consumed
NoPool == [ phase |-> "none", n |-> 0, call |-> << >>, submitted |-> << >>,
            consumed |-> << >>, processed_files |-> 0 ]

Running(p) == {i \in 1..p.n : p.call[i] = "running"}
Queued(p) == {i \in 1..p.n : p.call[i] = "queued"}

\* the executor has a worker left for a queued call
free_worker_any(p) == TRUE

free_worker(p) == Cardinality(Running(p)) < max_workers

\* with ThreadPoolExecutor(max_workers=10) as executor, for n files read
pool_open(n) ==
  /\ pool.phase = "none"
  /\ pool' = [ phase |-> IF n = 0 THEN "consume" ELSE "submit", n |-> n,
               call |-> [i \in 1..n |-> "new"], submitted |-> [i \in 1..n |-> 0],
               consumed |-> [i \in 1..n |-> 0], processed_files |-> 0 ]
  /\ UNCHANGED <<users_db, stats_db, user_data, now, reply, scanned, refused>>

\* one turn of the loop over files_to_process: executor.submit
pool_submit ==
  /\ pool.phase = "submit"
  /\ LET i == CHOOSE i \in 1..pool.n :
                 pool.submitted[i] = 0 /\ \A j \in 1..(i - 1) : pool.submitted[j] > 0
     IN pool' = [pool EXCEPT !.call[i] = "queued", !.submitted[i] = @ + 1,
                             !.phase = IF i = pool.n THEN "consume" ELSE "submit"]
  /\ UNCHANGED <<users_db, stats_db, user_data, now, reply, scanned, refused>>

\* a worker takes the oldest queued call
pool_start ==
  /\ Queued(pool) # {}
  /\ free_worker(pool)
  /\ LET i == CHOOSE i \in Queued(pool) : \A j \in Queued(pool) : i <= j
     IN pool' = [pool EXCEPT !.call[i] = "running"]
  /\ UNCHANGED <<users_db, stats_db, user_data, now, reply, scanned, refused>>

\* process_single_file returns
pool_return ==
  /\ \E i \in Running(pool) : pool' = [pool EXCEPT !.call[i] = "done"]
  /\ UNCHANGED <<users_db, stats_db, user_data, now, reply, scanned, refused>>

\* one turn of the loop over as_completed(futures), which yields every
\* future once, when it is done
pool_consume ==
  /\ pool.phase = "consume"
  /\ \E i \in 1..pool.n :
       /\ pool.call[i] = "done"
       /\ pool.consumed[i] = 0
       /\ pool' = [pool EXCEPT !.consumed[i] = @ + 1, !.processed_files = @ + 1]
  /\ UNCHANGED <<users_db, stats_db, user_data, now, reply, scanned, refused>>

\* as_completed is exhausted and the with block is left: the summary
pool_summary ==
  /\ pool.phase = "consume"
  /\ \A i \in 1..pool.n : pool.consumed[i] > 0
  /\ pool' = [pool EXCEPT !.phase = "summary"]
  /\ UNCHANGED <<users_db, stats_db, user_data, now, reply, scanned, refused>>

\* the handler returns
pool_close ==
  /\ pool.phase = "summary"
  /\ pool' = NoPool
  /\ UNCHANGED <<users_db, stats_db, user_data, now, reply, scanned, refused>>

-----------------------------------------------------------------------------
(* Inputs *)

Cookie(prefix, base) == Line("cookie", prefix, base)

NetflixFile == << Line("comment", "", ""), Cookie(".", "netflix") >>
MixedFile   == << Cookie(".", "netflix"), Line("short", "", ""),
                  Cookie("my", "facebook"), Cookie("", "linkedin") >>
LinkedinFile == << Cookie("www.", "linkedin"), Line("blank", "", "") >>
ForeignFile == << Cookie(".", "example") >>
JunkFile    == << Line("comment", "", ""), Line("short", "", "") >>
BrokenFile  == << Cookie(".", "netflix"), Line("long", "", "") >>
EmptyFile   == << >>

Contents == {NetflixFile, MixedFile, LinkedinFile, ForeignFile, JunkFile,
             BrokenFile, EmptyFile}

\* the network gives every tester of a file the same answer
Nets == {[s \in SCAN_TARGETS |-> r] : r \in Responses}

Live == [s \in SCAN_TARGETS |-> [failed |-> FALSE, code |-> 200, url |-> "target", page |-> << >>]]
Dead == [s \in SCAN_TARGETS |-> [failed |-> FALSE, code |-> 200, url |-> "login", page |-> << >>]]
Moved == [s \in SCAN_TARGETS |-> [failed |-> FALSE, code |-> 302, url |-> "other", page |-> << >>]]

TxtDocs(contents, nets) ==
  {Document("txt", TRUE, << Member("", "a.txt", TRUE, TRUE, c, n) >>) :
     c \in contents, n \in nets}

\* members of a .zip: cookie files in the root or in a folder (two of
\* them with the same base name), a file that cannot be read, and a file
\* that is no .txt
ZipMembers ==
  { Member("", "a.txt", TRUE, TRUE, NetflixFile, Live),
    Member("", "a.txt", TRUE, TRUE, JunkFile, Live),
    Member("x", "a.txt", TRUE, TRUE, NetflixFile, Dead),
    Member("x", "a.txt", TRUE, TRUE, MixedFile, Moved),
    Member("", "b.txt", TRUE, TRUE, MixedFile, Live),
    Member("", "b.txt", TRUE, TRUE, BrokenFile, Live),
    Member("", "c.txt", TRUE, FALSE, EmptyFile, Live),
    Member("", "readme.md", FALSE, TRUE, EmptyFile, Live) }

\* a file that zipfile cannot open, and the archives of up to max members
ZipDocs(members, max) ==
  {Document("zip", FALSE, << >>)}
  \cup {Document("zip", TRUE, ms) : ms \in UNION {[1..k -> members] : k \in 0..max}}

OtherDocs == {Document("other", TRUE, << >>)}

\* the documents of the account specification: a live .txt, a .zip of two
\* live files, and a file that is neither .txt nor .zip
SmallDocs ==
  TxtDocs({NetflixFile}, {Live})
  \cup {Document("zip", TRUE, << Member("", "a.txt", TRUE, TRUE, NetflixFile, Live),
                                 Member("", "b.txt", TRUE, TRUE, NetflixFile, Live) >>)}
  \cup OtherDocs

\* the documents of the quota specification: a live .txt, and a .zip of a
\* live file and a file without cookies
QuotaDocs ==
  TxtDocs({NetflixFile}, {Live})
  \cup {Document("zip", TRUE, << Member("", "a.txt", TRUE, TRUE, NetflixFile, Live),
                                 Member("", "b.txt", TRUE, TRUE, JunkFile, Live) >>)}

\* the documents of the scan specification
ScanDocs ==
  TxtDocs(Contents, Nets)
  \cup ZipDocs(ZipMembers, MaxMembers)
  \cup OtherDocs

\* cookie files of TikTok, and of Netflix and TikTok
TiktokFile == << Cookie(".", "tiktok") >>
PlanFile   == << Cookie(".", "netflix"), Cookie("www.", "tiktok") >>

\* what the extractors may find in the account page of Netflix (no plan, a
\* plan, a plan whose name holds " - ") and in the pages of TikTok (no
\* user name, a user name without or with the counts of the profile)
NetflixPages == { << >>, <<"Premium">>, <<"Standard", " - ", "Ads">> }
TiktokPages == { << >>, <<"alice">>, <<"alice", "10", "2", "30", "4">> }

\* the network answers every tester with its live page
PlanNets ==
  {[s \in SCAN_TARGETS |->
      [failed |-> FALSE, code |-> 200, url |-> "target",
       page |-> IF s = "netflix" THEN n ELSE IF s = "tiktok" THEN t ELSE << >>]] :
     n \in NetflixPages, t \in TiktokPages}

\* the documents of the plan specification: a .txt, or a .zip of one file
PlanDocs ==
  TxtDocs({NetflixFile, TiktokFile, PlanFile}, PlanNets)
  \cup {Document("zip", TRUE, << Member("", "a.txt", TRUE, TRUE, c, n) >>) :
          c \in {NetflixFile, TiktokFile}, n \in PlanNets}

\* the quota and the uploads allowed beyond it
QuotaLimit == NORMAL_PLAN_LIMIT + MaxOver

\* a user sends a document, while the user's usage counter is below cap
\* and today's scan counter below daily
Upload(users, chats, docs, cap, daily) ==
  \E user \in users, chat_id \in chats, doc \in docs :
    \E order \in Orders(Len(files_to_process(doc))) :
      /\ user \in DOMAIN users_db => users_db[user].file_count < cap
      /\ scanned[user] < cap
      /\ daily_get(stats_db, Today(now)) < daily
      /\ handle_document(user, chat_id, doc, order)

-----------------------------------------------------------------------------
(* Specifications *)

Init ==
  /\ users_db = load_users_db
  /\ stats_db = << >>
  /\ user_data = [u \in Users |-> << >>]
  /\ now = 0
  /\ reply = Reply("", "none")
  /\ scanned = [u \in Users |-> 0]
  /\ pool = NoPool
  /\ refused = [u \in Users |-> None]

\* the bot handles one update at a time: the answer to the last update
\* has been sent before the next update is handled
Idle == reply.kind = "none"

Sent ==
  /\ ~Idle
  /\ reply' = Reply("", "none")
  /\ UNCHANGED <<users_db, stats_db, user_data, now, scanned, pool, refused>>

\* the buttons of the account specification: all but those that select
\* another service than netflix
SpecButtons == ButtonData \ {"service_tiktok", "service_facebook", "service_linkedin",
                              "scan_all"}

\* The account specification: every handler, for the admin and another
\* user, with few documents and a short clock.
Next ==
  \/ Idle /\ UNCHANGED <<pool, refused>> /\ \E user \in Users : start(user)
  \/ Idle /\ UNCHANGED <<pool, refused>> /\ \E user \in Users : menu(user)
  \/ Idle /\ UNCHANGED <<pool, refused>> /\ \E user \in Users : check_plan(user)
  \/ Idle /\ UNCHANGED <<pool, refused>> /\ \E user \in Users : admin_stats(user)
  \/ Idle /\ UNCHANGED <<pool, refused>> /\ \E user \in Users, args \in ArgLists : admin_set_vip(user, args)
  \/ Idle /\ UNCHANGED <<pool, refused>> /\ \E user \in Users, args \in ArgLists : admin_del_vip(user, args)
  \/ Idle /\ UNCHANGED <<pool, refused>> /\ \E user \in Users, chat_id \in Chats, data \in SpecButtons :
               button_handler(user, chat_id, data)
  \/ Idle /\ UNCHANGED <<pool, refused>> /\ Upload(Users \ {ADMIN_USER_ID}, Chats, SmallDocs, QuotaLimit, MaxDaily)
  \/ Idle /\ UNCHANGED <<pool, refused>> /\ Tick(MaxTime)
  \/ Sent

Spec == Init /\ [][Next]_vars

\* The quota specification: one user signs up, selects a service and
\* uploads until the quota and beyond, while the clock runs past the
\* reset period.
NextQuota ==
  \/ Idle /\ UNCHANGED <<pool, refused>> /\ \E data \in {"create_account", "service_netflix"} :
               button_handler("1001", CHANNEL_CHAT_ID, data)
  \/ Idle /\ UNCHANGED <<pool, refused>> /\ Upload({"1001"}, {CHANNEL_CHAT_ID}, QuotaDocs, QuotaLimit, QuotaLimit)
  \/ Idle /\ UNCHANGED <<pool, refused>> /\ Tick(NORMAL_PLAN_RESET_HOURS + MaxTime)
  \/ Sent

SpecQuota == Init /\ [][NextQuota]_vars

\* The VIP specification: the same user, to whom the admin grants VIP for
\* 0 days or 1 day, uploads beyond the quota, on a short clock.
NextVip ==
  \/ Idle /\ UNCHANGED <<pool, refused>> /\ \E data \in {"create_account", "service_netflix"} :
               button_handler("1001", CHANNEL_CHAT_ID, data)
  \/ Idle /\ UNCHANGED <<pool, refused>> /\ Upload({"1001"}, {CHANNEL_CHAT_ID}, TxtDocs({NetflixFile}, {Live}),
                    QuotaLimit, QuotaLimit)
  \/ Idle /\ UNCHANGED <<pool, refused>> /\ \E days \in {"0", "1"} : admin_set_vip(ADMIN_USER_ID, <<"1001", days>>)
  \/ Idle /\ UNCHANGED <<pool, refused>> /\ Tick(MaxTime)
  \/ Sent

SpecVip == Init /\ [][NextVip]_vars

\* The scan specification: one user signs up, selects a service or all
\* services, and uploads documents of every shape.
NextScan ==
  \/ Idle /\ UNCHANGED <<pool, refused>> /\ \E data \in {"create_account", "scan_all", "service_netflix",
                           "service_facebook", "service_linkedin"} :
               button_handler("1001", CHANNEL_CHAT_ID, data)
  \/ Idle /\ UNCHANGED <<pool, refused>> /\ Upload({"1001"}, {CHANNEL_CHAT_ID}, ScanDocs, MaxDaily, MaxDaily)
  \/ Sent

SpecScan == Init /\ [][NextScan]_vars

\* The plan specification: one user signs up, selects Netflix, TikTok or
\* all services, and uploads files of accounts whose pages carry a plan or
\* a profile.
NextPlan ==
  \/ Idle /\ UNCHANGED <<pool, refused>> /\ \E data \in {"create_account", "scan_all", "service_netflix", "service_tiktok"} :
               button_handler("1001", CHANNEL_CHAT_ID, data)
  \/ Idle /\ UNCHANGED <<pool, refused>> /\ Upload({"1001"}, {CHANNEL_CHAT_ID}, PlanDocs, MaxDaily, MaxDaily)
  \/ Sent

SpecPlan == Init /\ [][NextPlan]_vars

\* refused[u] observes the handlers: the time at which the waiting time
\* announced by the last refusal of can_user_scan to u ends (None when u
\* was never refused)
note ==
  refused' = IF reply'.kind = "quota_error"
             THEN [refused EXCEPT ![reply'.to] = Some(now + reply'.wait)]
             ELSE refused

\* the clock of the retry specification runs until the waiting time of
\* every refusal is over
RetryHorizon == MaxTime + NORMAL_PLAN_RESET_HOURS + 2

\* the user selects a service once more: button service_netflix, which
\* asks can_user_scan
Retry ==
  /\ Idle
  /\ button_handler("1001", CHANNEL_CHAT_ID, "service_netflix")
  /\ note
  /\ UNCHANGED pool

Advance == Idle /\ Tick(RetryHorizon) /\ UNCHANGED <<pool, refused>>

\* The retry specification: one user signs up and uploads until the quota
\* during the first hours, and selects a service again and again while
\* the clock runs on.
NextRetry ==
  \/ Idle /\ button_handler("1001", CHANNEL_CHAT_ID, "create_account") /\ note
          /\ UNCHANGED pool
  \/ Retry
  \/ Idle /\ now <= MaxTime
          /\ Upload({"1001"}, {CHANNEL_CHAT_ID}, TxtDocs({NetflixFile}, {Live}),
                    QuotaLimit, QuotaLimit)
          /\ note
          /\ UNCHANGED pool
  \/ Advance
  \/ Sent

\* time advances, the user keeps retrying and every answer is sent
SpecRetry ==
  Init /\ [][NextRetry]_vars /\ SF_vars(Retry) /\ SF_vars(Advance) /\ WF_vars(Sent)

\* The display specification: one user signs up, uploads up to the quota
\* and asks for the plan information while the clock runs past the reset
\* period.
NextShow ==
  \/ Idle /\ UNCHANGED <<pool, refused>>
          /\ \E data \in {"create_account", "service_netflix", "check_plan"} :
               button_handler("1001", CHANNEL_CHAT_ID, data)
  \/ Idle /\ UNCHANGED <<pool, refused>> /\ check_plan("1001")
  \/ Idle /\ UNCHANGED <<pool, refused>>
          /\ Upload({"1001"}, {CHANNEL_CHAT_ID}, TxtDocs({NetflixFile}, {Live}),
                    QuotaLimit, QuotaLimit)
  \/ Idle /\ UNCHANGED <<pool, refused>> /\ Tick(NORMAL_PLAN_RESET_HOURS + MaxTime)
  \/ Sent

SpecShow == Init /\ [][NextShow]_vars

\* what the admin types after /setvip or /delvip in the grant
\* specification: nothing, a user id, or a user id and a day count
GrantArgs == {<< >>} \cup {<<a>> : a \in Users \cup {"999"}}
               \cup {<<a, b>> : a \in Users \cup {"999"}, b \in {"-1", "0", "1", "soon"}}

\* The grant specification: the admin gets a record, another user signs
\* up and uploads a little, and the admin sends
\* /setvip and /delvip with every kind of argument, on a short clock.
NextGrant ==
  \/ Idle /\ UNCHANGED <<pool, refused>> /\ menu(ADMIN_USER_ID)
  \/ Idle /\ UNCHANGED <<pool, refused>>
          /\ \E data \in {"create_account", "service_netflix"} :
               button_handler("1001", CHANNEL_CHAT_ID, data)
  \/ Idle /\ UNCHANGED <<pool, refused>>
          /\ Upload({"1001"}, {CHANNEL_CHAT_ID}, TxtDocs({NetflixFile}, {Live}),
                    MaxDaily, MaxDaily)
  \/ Idle /\ UNCHANGED <<pool, refused>>
          /\ \E args \in GrantArgs : admin_set_vip(ADMIN_USER_ID, args)
  \/ Idle /\ UNCHANGED <<pool, refused>>
          /\ \E args \in GrantArgs : admin_del_vip(ADMIN_USER_ID, args)
  \/ Idle /\ UNCHANGED <<pool, refused>> /\ Tick(MaxTime)
  \/ Sent

SpecGrant == Init /\ [][NextGrant]_vars

\* The pool specification: .zip uploads of up to MaxPoolFiles files go
\* through the worker pool.
NextPool ==
  \/ \E n \in 0..MaxPoolFiles : pool_open(n)
  \/ pool_submit
  \/ pool_start
  \/ pool_return
  \/ pool_consume
  \/ pool_summary
  \/ pool_close

SpecPool == Init /\ [][NextPool]_vars

-----------------------------------------------------------------------------
(* Properties *)

Range(seq) == {seq[i] : i \in DOMAIN seq}
Count(seq, e) == Cardinality({i \in DOMAIN seq : seq[i] = e})

NonAdmins == Users \ {ADMIN_USER_ID}

\* the handler reached process_single_file
Scanned(r) == r.scan.results # << >>

VipInForce(record, t) ==
  record.plan = "vip" /\ (record.vip_expiry = None \/ t <= record.vip_expiry[1])

\* C1: a user on the normal plan gets at most NORMAL_PLAN_LIMIT uploads
\* scanned between two resets of file_count.
QuotaEnforced ==
  \A u \in DOMAIN users_db :
    users_db[u].plan = "normal" => scanned[u] <= NORMAL_PLAN_LIMIT

\* C2: a document of a non-admin user is scanned outside the channel only
\* if the user holds a VIP plan that has not expired at that time.
PrivateScanOnlyForVip ==
  (Scanned(reply) /\ reply.to # ADMIN_USER_ID /\ reply.chat # CHANNEL_CHAT_ID)
    => VipInForce(users_db[reply.to], now)

\* C4: once the admin's record exists, its plan is 'vip' and
\* can_user_scan(ADMIN_USER_ID) returns True.
AdminVipPermanent ==
  ADMIN_USER_ID \in DOMAIN users_db
    => /\ users_db[ADMIN_USER_ID].plan = "vip"
       /\ can_user_scan(users_db, ADMIN_USER_ID, now).ok

\* a step in which the bot handles an update of a user other than the admin
ByNonAdmin == reply'.kind # "none" /\ reply'.to # ADMIN_USER_ID

\* the step gives nobody a VIP plan and sets or moves nobody's vip_expiry
GrantsNothing ==
  \A u \in DOMAIN users_db' :
    /\ users_db'[u].plan = "vip" => (u \in DOMAIN users_db /\ users_db[u].plan = "vip")
    /\ users_db'[u].vip_expiry # None
         => (u \in DOMAIN users_db /\ users_db[u].vip_expiry = users_db'[u].vip_expiry)

PermissionErrors == {"no_permission", "panel_no_permission", "button_no_permission"}

Refused == users_db' = users_db /\ reply'.kind \in PermissionErrors

\* the step is /stats, /setvip or /delvip of user
IsAdminCommand(user) ==
  \/ admin_stats(user)
  \/ \E args \in ArgLists : admin_set_vip(user, args) \/ admin_del_vip(user, args)

\* the step is a press of admin_panel, admin_users_info or admin_today_stats
IsAdminButton(user) ==
  \E chat_id \in Chats, data \in DOMAIN AdminButtons : button_handler(user, chat_id, data)

\* the step adds at most the default record of user to users_db
OnlyDefaultRecord(user) ==
  /\ DOMAIN users_db \subseteq DOMAIN users_db'
  /\ DOMAIN users_db' \subseteq DOMAIN users_db \cup {user}
  /\ \A u \in DOMAIN users_db : users_db'[u] = users_db[u]
  /\ user \notin DOMAIN users_db
       => (users_db'[user].plan = "normal" /\ users_db'[user].vip_expiry = None)

\* C3 as stated: no update of a user other than the admin gives anybody a
\* VIP plan or sets or extends a vip_expiry, and /stats, /setvip, /delvip
\* and the three admin buttons, called by another user than the admin,
\* leave users_db unchanged and answer with a permission error (a step of
\* such a user that does otherwise is none of these).
OnlyAdminGrants ==
  [][ ByNonAdmin =>
        /\ GrantsNothing
        /\ ~Refused => (~IsAdminCommand(reply'.to) /\ ~IsAdminButton(reply'.to)) ]_vars

\* C3: no update of a user other than the admin gives anybody a VIP plan
\* or sets or moves a vip_expiry; /stats, /setvip and /delvip of such a
\* user leave users_db unchanged and answer with a permission error, and
\* so do the three admin buttons when the caller is registered; to an
\* unregistered caller they show the login prompt, adding at most the
\* caller's default record to users_db.
OnlyAdminGrantsRegistered ==
  [][ ByNonAdmin =>
        LET user == reply'.to
            signed_up == user \in DOMAIN users_db /\ users_db[user].registered
            prompted == reply'.kind = "please_login" /\ OnlyDefaultRecord(user)
        IN /\ GrantsNothing
           /\ ~Refused => ~IsAdminCommand(user)
           /\ ~(IF signed_up THEN Refused ELSE prompted) => ~IsAdminButton(user) ]_vars

\* a user holding a VIP with an expiry has asked for /setvip and been refused
VipHolderRefused ==
  /\ reply.kind = "no_permission"
  /\ reply.to \in NonAdmins \cap DOMAIN users_db
  /\ users_db[reply.to].plan = "vip"
  /\ users_db[reply.to].vip_expiry # None

\* C5: for a user whose plan is 'vip' and whose vip_expiry is None or not
\* yet passed, can_user_scan returns (True, "") whatever file_count is and
\* leaves the record as it is; such a user is never told the quota is used.
VipUnlimited ==
  /\ \A u \in DOMAIN users_db :
       VipInForce(users_db[u], now)
         => LET can == can_user_scan(users_db, u, now)
            IN can.ok /\ can.msg = "" /\ can.db = users_db
  /\ reply.kind = "quota_error" => ~VipInForce(users_db[reply.to], now)

\* an upload of a VIP user was scanned with file_count at the limit
VipScannedBeyondLimit ==
  /\ Scanned(reply)
  /\ VipInForce(users_db[reply.to], now)
  /\ users_db[reply.to].file_count > NORMAL_PLAN_LIMIT

Unregistered(db, u) == u \in DOMAIN db /\ ~db[u].registered

\* C6: an update of a user whose record has registered = False scans no
\* upload, stores no selected_service, raises neither file_count nor
\* daily_scans, and a button other than back_start, login_menu, help_menu
\* and create_account only shows the login prompt.
RegistrationGate ==
  [][ /\ \A u \in Users : Unregistered(users_db', u) =>
           /\ "selected_service" \notin DOMAIN user_data'[u]
           /\ users_db'[u].file_count = 0
      /\ (reply'.kind # "none" /\ Unregistered(users_db', reply'.to)) =>
           /\ ~Scanned(reply')
           /\ stats_db' = stats_db
           /\ user_data' = user_data
           /\ reply'.kind # "please_login" =>
                ~\E chat_id \in Chats, data \in ButtonData \ OpenButtons :
                    button_handler(reply'.to, chat_id, data) ]_vars

\* a user who was granted VIP before signing up presses a button of the menu
UnregisteredVipBlocked ==
  /\ reply.kind = "please_login"
  /\ Unregistered(users_db, reply.to)
  /\ users_db[reply.to].plan = "vip"

\* the status a result holds for a service, "" when it holds none
StatusOf(result, svc, selected_service) ==
  IF "error" \in DOMAIN result THEN ""
  ELSE IF selected_service = "all"
       THEN (IF svc \in DOMAIN result.all_results THEN result.all_results[svc].status ELSE "")
       ELSE (IF svc = selected_service THEN result.status ELSE "")

\* the (file, service) pairs of a scan whose result has status 'success'
LivePairs(scan) ==
  {p \in (DOMAIN scan.results) \X SCAN_TARGETS :
     StatusOf(scan.results[p[1]][2], p[2], scan.service) = "success"}

\* the entry of the archive that a live pair calls for
EntryOf(scan, p) == <<p[2], scan.results[p[1]][1], scan.files[p[1]].content>>

ArchiveOf(scan) == IF scan.archive = None THEN << >> ELSE scan.archive[1]

\* C7: an upload in which k files were processed raises the user's
\* file_count by k, as it raises today's daily_scans by k.
UsageCountedInFiles ==
  [][ (reply'.kind # "none" /\ reply'.scan.processed > 0) =>
        LET u == reply'.to
            k == reply'.scan.processed
        IN /\ users_db'[u].file_count = users_db[u].file_count + k
           /\ daily_get(stats_db', Today(now)) = daily_get(stats_db, Today(now)) + k ]_vars

\* C8: after every upload that was scanned, the archive sent holds one
\* entry, with the file's original content, for each (service, file) whose
\* result has status 'success', and no other entry.
ArchiveHoldsTheLive ==
  Scanned(reply) =>
    LET scan == reply.scan
        archive == ArchiveOf(scan)
    IN /\ \A p \in LivePairs(scan) : EntryOf(scan, p) \in Range(archive)
       /\ \A e \in Range(archive) :
            Count(archive, e) = Cardinality({p \in LivePairs(scan) : EntryOf(scan, p) = e})

Statuses == {"success", "dead", "unknown", "no_cookies", "error"}

\* what the tester of svc returned for a file
TesterReturned(file, svc) ==
  SERVICE_TEST_FUNCTIONS(svc,
    filter_cookies_by_domain(parse_cookies_txt(file.content).cookies, svc), file.net[svc])

\* C9: every per-service result of scan_cookie_content carries one status
\* out of success, dead, unknown, no_cookies and error; a tester that
\* returned None is reported as 'unknown'; where parsing raises,
\* scan_cookie_content returns a result with an 'error' key.
OneVerdictEach ==
  Scanned(reply) =>
    \A i \in DOMAIN reply.scan.results :
      LET file == reply.scan.files[i]
          result == reply.scan.results[i][2]
      IN /\ parse_cookies_txt(file.content).raised => "error" \in DOMAIN result
         /\ Cardinality(DOMAIN result \cap {"error", "status", "all_results"}) = 1
         /\ \A svc \in SCAN_TARGETS :
              LET status == StatusOf(result, svc, reply.scan.service)
              IN status # "" =>
                   /\ status \in Statuses
                   /\ TesterReturned(file, svc) = None => status = "unknown"

\* a file was scanned whose tester returned None
NoneWasReported ==
  /\ Scanned(reply)
  /\ \E i \in DOMAIN reply.scan.results, svc \in SCAN_TARGETS :
       /\ StatusOf(reply.scan.results[i][2], svc, reply.scan.service) = "unknown"
       /\ TesterReturned(reply.scan.files[i], svc) = None

\* C10: an upload of a .zip from which a .txt file was read ends with the
\* summary, with the archive when a file is live, and with the user's
\* file_count raised.
ZipEndsWithSummary ==
  [][ (reply'.kind # "none" /\ reply'.scan.ext = "zip" /\ reply'.scan.files # << >>) =>
        /\ reply'.kind = "summary"
        /\ reply'.scan.summary # None
        /\ LivePairs(reply'.scan) # {} => reply'.scan.archive # None
        /\ users_db'[reply'.to].file_count > users_db[reply'.to].file_count ]_vars

\* the files a summary counts for a service, over all the counters
Counted(summary, svc) ==
  summary.stats[svc].live + summary.stats[svc].dead + summary.stats[svc].unknown
    + summary.stats[svc].no_cookies + summary.stats[svc].error

\* C11: in the summary of a .zip scanned for one service, announced as
\* 'Scan Summary for N files', live + dead + unknown + no_cookies + error
\* + the number of error messages is N.
SummaryCountsEveryFile ==
  (reply.kind = "summary" /\ reply.scan.service # "all") =>
    LET summary == reply.scan.summary[1]
    IN Counted(summary, reply.scan.service) + Len(summary.errors) = summary.n

\* the result a scan holds for a service (for a status other than "")
ResultFor(result, svc, selected_service) ==
  IF selected_service = "all" THEN result.all_results[svc] ELSE result

\* the words of a plan_info that say nothing about the account
Labels == {"Plan:", "Unknown", "User:", "|", "Followers:", "Following:", "Likes:",
           "Videos:", "Profile:", "Cannot access", "Status:", "LIVE", "DEAD"}

\* the account metadata a result carries: the other words of its plan_info
Metadata(r) ==
  IF "plan_info" \in DOMAIN r THEN {w \in Range(r.plan_info) : w \notin Labels} ELSE {}

\* C12: when the result of a file for a service has status 'success' and
\* its plan_info carries account metadata, the message sent about that file
\* holds that metadata.
MetadataReported ==
  Scanned(reply) =>
    \A i \in DOMAIN reply.scan.results, svc \in SCAN_TARGETS :
      LET result == reply.scan.results[i][2]
      IN StatusOf(result, svc, reply.scan.service) = "success" =>
           LET r == ResultFor(result, svc, reply.scan.service)
           IN Metadata(r) # {} =>
                /\ svc \in DOMAIN reply.scan.shown[i]
                /\ Metadata(r) \subseteq Range(reply.scan.shown[i][svc])

\* C13: at most max_workers calls of process_single_file run at a time,
\* no file is submitted and no result consumed more than once, and when
\* the summary is built every file read was submitted once, its call has
\* returned, its result was consumed once and processed_files is the
\* number of files read.
FixedSizePool ==
  /\ Cardinality(Running(pool)) <= max_workers
  /\ \A i \in 1..pool.n : pool.submitted[i] <= 1 /\ pool.consumed[i] <= 1
  /\ pool.phase = "summary" =>
       /\ \A i \in 1..pool.n :
            pool.submitted[i] = 1 /\ pool.call[i] = "done" /\ pool.consumed[i] = 1
       /\ pool.processed_files = pool.n

\* all the workers are busy and a submitted file waits for one
PoolIsFull ==
  /\ Cardinality(Running(pool)) = max_workers
  /\ Queued(pool) # {}

\* C15: the plan information shown to a normal-plan user has a reset time
\* between 0 and NORMAL_PLAN_RESET_HOURS hours and a number of used files
\* of at most NORMAL_PLAN_LIMIT.
PlanDisplayConsistent ==
  (reply.kind = "plan_info" /\ reply.info[1].plan_text = "Normal") =>
    /\ reply.info[1].reset_info[1] \in 0..NORMAL_PLAN_RESET_HOURS
    /\ reply.info[1].used_files <= NORMAL_PLAN_LIMIT

\* the waiting time that the last refusal of u announced has elapsed, u
\* being on the normal plan
WaitIsOver(u) ==
  /\ u \in DOMAIN users_db
  /\ users_db[u].plan = "normal"
  /\ refused[u] # None
  /\ now > refused[u][1]

\* a call of can_user_scan(u) made now returns True and resets file_count
\* to 0 and last_reset to the time of the call
CallResets(u) ==
  LET can == can_user_scan(users_db, u, now)
  IN /\ can.ok
     /\ can.db[u].file_count = 0
     /\ can.db[u].last_reset = now

\* the waiting time of a refusal is between 0 and NORMAL_PLAN_RESET_HOURS
\* hours and is last_reset + NORMAL_PLAN_RESET_HOURS - t
WaitAnnounced ==
  reply.kind = "quota_error" =>
    /\ reply.wait \in 0..NORMAL_PLAN_RESET_HOURS
    /\ reply.wait = (users_db[reply.to].last_reset + NORMAL_PLAN_RESET_HOURS) - now

Blocked(u) == reply.kind = "quota_error" /\ reply.to = u

Allowed(u) ==
  /\ reply.kind = "selected"
  /\ reply.to = u
  /\ users_db[u].file_count < NORMAL_PLAN_LIMIT

\* C14 as stated: the waiting time announced by a refusal is as above,
\* every call of can_user_scan made after it has elapsed returns True and
\* resets file_count and last_reset, and a blocked user who keeps retrying
\* is eventually allowed to scan again.
QuotaComesBackAtEveryCall ==
  /\ [](WaitAnnounced /\ \A u \in NonAdmins : WaitIsOver(u) => CallResets(u))
  /\ \A u \in NonAdmins : Blocked(u) ~> Allowed(u)

\* C14: the waiting time announced by a refusal is as above, the first
\* call of can_user_scan made after it has elapsed (last_reset is still
\* the one of the refusal) returns True and resets file_count and
\* last_reset, and a blocked user who keeps retrying is eventually allowed
\* to scan again.
QuotaComesBack ==
  /\ [](WaitAnnounced
        /\ \A u \in NonAdmins :
             (WaitIsOver(u)
              /\ users_db[u].last_reset + NORMAL_PLAN_RESET_HOURS = refused[u][1])
               => CallResets(u))
  /\ \A u \in NonAdmins : Blocked(u) ~> Allowed(u)

\* a user who was refused has selected a service after the waiting time,
\* and the counter and the period have started again
AllowedAgain ==
  \E u \in NonAdmins :
    /\ WaitIsOver(u)
    /\ Allowed(u)
    /\ users_db[u].file_count = 0
    /\ users_db[u].last_reset = now

\* C16: when /setvip u d succeeds, u was in users_db and its record is the
\* one before with plan 'vip', vip_expiry = now + d days, vip_start = now
\* and file_count = 0 (registered, join_date and last_reset as before), no
\* other record has changed, the reply announces that expiry, and
\* can_user_scan(u) returns True at every time up to it, whatever the
\* number of files u has scanned by then.
SetVipEffect ==
  [][ reply'.kind = "setvip_ok" =>
        LET u == reply'.info[1].target
            d == reply'.info[1].days
            expires == reply'.info[1].expires
        IN /\ u \in DOMAIN users_db
           /\ DOMAIN users_db' = DOMAIN users_db
           /\ users_db'[u].plan = "vip"
           /\ users_db'[u].vip_expiry = Some(now + d * HoursPerDay)
           /\ users_db'[u].vip_start = Some(now)
           /\ users_db'[u].file_count = 0
           /\ users_db'[u].registered = users_db[u].registered
           /\ users_db'[u].join_date = users_db[u].join_date
           /\ users_db'[u].last_reset = users_db[u].last_reset
           /\ \A v \in DOMAIN users_db \ {u} : users_db'[v] = users_db[v]
           /\ expires = now + d * HoursPerDay
           /\ \A t \in now..expires, n \in {0, NORMAL_PLAN_LIMIT, QuotaLimit} :
                can_user_scan([users_db' EXCEPT ![u].file_count = n], u, t).ok ]_vars

\* /setvip for one day has succeeded for a registered user whose reset
\* period started earlier, while the database holds another record
VipGranted ==
  /\ reply.kind = "setvip_ok"
  /\ reply.info[1].days = 1
  /\ LET u == reply.info[1].target
     IN /\ u # ADMIN_USER_ID
        /\ users_db[u].registered
        /\ users_db[u].last_reset < now
        /\ users_db[u].vip_expiry = Some(now + HoursPerDay)
        /\ DOMAIN users_db # {u}

\* the error messages that fit /setvip with these arguments
SetVipErrors(args) ==
  (IF Len(args) < 2 THEN {"setvip_usage"} ELSE {})
  \cup (IF Len(args) >= 2 /\ args[2] \notin DOMAIN IntTokens
        THEN {"setvip_bad_days"} ELSE {})
  \cup (IF Len(args) >= 1 /\ args[1] \notin DOMAIN users_db THEN {"no_user"} ELSE {})

\* the error messages that fit /delvip with these arguments
DelVipErrors(args) ==
  (IF Len(args) < 1 THEN {"delvip_usage"} ELSE {})
  \cup (IF Len(args) >= 1 /\ args[1] \notin DOMAIN users_db THEN {"no_user"} ELSE {})
  \cup (IF Len(args) >= 1 /\ args[1] = ADMIN_USER_ID THEN {"delvip_admin"} ELSE {})

\* the replies of /setvip and of /delvip to the admin
SetVipReplies == {"setvip_usage", "setvip_bad_days", "no_user", "setvip_ok", "setvip_error"}

DelVipReplies == {"delvip_usage", "no_user", "delvip_admin", "delvip_ok"}

\* C17: /setvip and /delvip of the admin with arguments that an error
\* message fits (too few arguments, a day count that is no integer, a user
\* id that is no key of users_db, the admin as target of /delvip) reply
\* with such a message and leave users_db as it is (no step of the handler
\* with such arguments does otherwise); set_vip_with_duration returns
\* False for a user id that is no key of users_db.
RejectedChangeNothing ==
  [][ /\ \A u \in (Users \cup {"999"}) \ DOMAIN users_db, days \in {-1, 0, 1} :
           LET done == set_vip_with_duration(users_db, u, days, now)
           IN ~done.ok /\ done.db = users_db
      /\ (Idle /\ reply'.to = ADMIN_USER_ID /\ reply'.kind \in SetVipReplies) =>
           \A args \in GrantArgs :
             (SetVipErrors(args) # {}
              /\ ~(reply'.kind \in SetVipErrors(args) /\ users_db' = users_db))
               => ~admin_set_vip(ADMIN_USER_ID, args)
      /\ (Idle /\ reply'.to = ADMIN_USER_ID /\ reply'.kind \in DelVipReplies) =>
           \A args \in GrantArgs :
             (DelVipErrors(args) # {}
              /\ ~(reply'.kind \in DelVipErrors(args) /\ users_db' = users_db))
               => ~admin_del_vip(ADMIN_USER_ID, args) ]_vars

\* the admin, whose record says 'vip', was refused /delvip on that record
\* while another user holds a VIP with an expiry
DelVipOfAdminRefused ==
  /\ reply.kind = "delvip_admin"
  /\ reply.to = ADMIN_USER_ID
  /\ ADMIN_USER_ID \in DOMAIN users_db
  /\ users_db[ADMIN_USER_ID].plan = "vip"
  /\ \E u \in NonAdmins \cap DOMAIN users_db : users_db[u].vip_expiry # None

=============================================================================
